---- MODULE Spec2Model ----
(***************************************************************************)
(* Model of the ColorLight widget of static/js/color-light.js.             *)
(*                                                                         *)
(* JavaScript values are tagged records [t, n, s]: t is the type tag, n    *)
(* the value of a number, s the characters of a string (a sequence of      *)
(* one-character strings, so that substr, parseInt and toString(16) can    *)
(* be modelled by what they do to the characters).                         *)
(***************************************************************************)
EXTENDS Integers, Sequences, FiniteSets, TLC

VARIABLES
  format,               \* this.format: "svg", "html" or "htmlDetail"
  displayedProperties,  \* the keys of this.displayedProperties
  properties,           \* this.properties: the cache, one value per key
  label,                \* this.colorLightLabel.textContent
  background,           \* this.colorLight.style.background
  fill,                 \* this.colorLightIconPath.style.fill
  bright,               \* 'bright-color' in this.colorLight.classList
  onShown,              \* the "on" visual state toggled by showOn / showOff
  requests,             \* the PUT requests in flight, in issue order
  issued,               \* the number of PUT requests issued so far
  sent,                 \* the body of the PUT request issued last
  log,                  \* the console.error messages written so far
  thrown,               \* whether the last call threw to its caller
  carried,              \* per property, the value carried by the last
                        \* delivered update, whether a notification or a
                        \* 200 response brought it, and whether that
                        \* response had been overtaken by a newer change
  reported              \* under SpecCT, the temperature the bulb reports

vars == <<format, displayedProperties, properties, label, background, fill,
          bright, onShown, requests, issued, sent, log, thrown, carried,
          reported>>

----------------------------------------------------------------------------
(* JavaScript values *)

Val(t, n, s) == [t |-> t, n |-> n, s |-> s]
Undefined == Val("undefined", 0, <<>>)
Null == Val("null", 0, <<>>)
NaN == Val("NaN", 0, <<>>)
True == Val("true", 0, <<>>)
False == Val("false", 0, <<>>)
Absent == Val("absent", 0, <<>>)   \* the key is not an own property
Num(n) == Val("number", n, <<>>)
Str(s) == Val("string", 0, s)

\* ToBoolean, as applied by "!color" and "on ? ... : ..."
Truthy(v) ==
  \/ v.t = "true"
  \/ v.t = "number" /\ v.n # 0
  \/ v.t = "string" /\ v.s # <<>>

\* Reading a key of an object: a missing key reads as undefined.
Get(v) == IF v = Absent THEN Undefined ELSE v

----------------------------------------------------------------------------
(* Strings: substr, parseInt, Number.prototype.toString(16) *)

HexChars == <<"0", "1", "2", "3", "4", "5", "6", "7",
              "8", "9", "a", "b", "c", "d", "e", "f">>

IsDigit(c, radix) == \E i \in 1..radix : HexChars[i] = c

DigitVal(c) == (CHOOSE i \in 1..16 : HexChars[i] = c) - 1

Min(a, b) == IF a < b THEN a ELSE b
Max(a, b) == IF a > b THEN a ELSE b

\* String.prototype.substr(start, length), start >= 0
Substr(s, start, length) ==
  IF start >= Len(s) THEN <<>>
  ELSE SubSeq(s, start + 1, Min(start + length, Len(s)))

\* The digits of s from position i on that parseInt consumes, accumulated
\* left to right: it stops at the first character that is no digit.
RECURSIVE ParseDigits(_, _, _, _)
ParseDigits(s, i, radix, acc) ==
  IF i > Len(s) \/ ~IsDigit(s[i], radix) THEN acc
  ELSE ParseDigits(s, i + 1, radix, acc * radix + DigitVal(s[i]))

RECURSIVE SkipSpaces(_, _)
SkipSpaces(s, i) ==
  IF i <= Len(s) /\ s[i] = " " THEN SkipSpaces(s, i + 1) ELSE i

\* parseInt(s, radix): leading white space and one sign are skipped, the
\* longest prefix of digits is read, and NaN results when there is none.
ParseInt(s, radix) ==
  LET i == SkipSpaces(s, 1)
      neg == i <= Len(s) /\ s[i] = "-"
      j == IF i <= Len(s) /\ s[i] \in {"-", "+"} THEN i + 1 ELSE i
  IN IF j > Len(s) \/ ~IsDigit(s[j], radix) THEN NaN
     ELSE LET m == ParseDigits(s, j, radix, 0)
          IN Num(IF neg THEN 0 - m ELSE m)

\* String(n) for an integer n >= 0.
ToDecimal[n \in Nat] ==
  IF n < 10 THEN <<HexChars[n + 1]>>
  ELSE ToDecimal[n \div 10] \o <<HexChars[(n % 10) + 1]>>

\* (n).toString(16) for an integer n >= 0: no padding.
ToHex[n \in Nat] ==
  IF n < 16 THEN <<HexChars[n + 1]>>
  ELSE ToHex[n \div 16] \o <<HexChars[(n % 16) + 1]>>

NaNChars == <<"N", "a", "N">>

----------------------------------------------------------------------------
(* Math.log and Math.pow.  The code computes in IEEE doubles; the model    *)
(* computes in fixed point with FixedOne units per 1 (six decimals), so a  *)
(* channel is known to about 0.001 before it is rounded.  The numeric      *)
(* helpers are functions, so that an argument is evaluated once, as a      *)
(* value, and they split their products to stay within 32 bits.            *)

FixedOne == 1000000

\* a * b / FixedOne for fixed-point a, b >= 0.
MulFix[a \in Nat, b \in Nat] ==
  (a \div 1000) * (b \div 1000)
  + ((a \div 1000) * (b % 1000) + (a % 1000) * (b \div 1000)
     + ((a % 1000) * (b % 1000)) \div 1000) \div 1000

\* a * FixedOne / b for 0 <= a < b, by long division in base 100.
DivFix[a \in Nat, b \in Nat] ==
  ((a * 100) \div b) * 10000
  + ((((a * 100) % b) * 100) \div b) * 100
  + ((((((a * 100) % b) * 100) % b) * 100) \div b)

Log2Floor[n \in Nat] == IF n < 2 THEN 0 ELSE 1 + Log2Floor[n \div 2]

Pow2[e \in Nat] == IF e = 0 THEN 1 ELSE 2 * Pow2[e - 1]

\* The series y + y^3/3 + y^5/5 + ... of atanh(y) from the term y^k/k on,
\* power being y^k and y2 being y^2.
AtanhSeries[y2 \in Nat, k \in Nat, power \in Nat] ==
  IF k > 13 THEN 0
  ELSE power \div k + AtanhSeries[y2, k + 2, MulFix[power, y2]]

\* ln(1 + f) for a fixed-point f in [0, 1): 2 atanh(f / (f + 2)).
LnMantissa[f \in Nat] ==
  2 * AtanhSeries[MulFix[DivFix[f, f + 2 * FixedOne],
                         DivFix[f, f + 2 * FixedOne]],
                  1, DivFix[f, f + 2 * FixedOne]]

\* ln(n) for an integer n >= 1, in fixed point: n = 2^e * (1 + f).
LnInt[n \in Nat] ==
  Log2Floor[n] * 693147
  + LnMantissa[DivFix[n - Pow2[Log2Floor[n]], Pow2[Log2Floor[n]]]]

\* Math.log(h / 100) for an integer h >= 1 of hundredths.
Log[h \in Nat] == LnInt[h] - LnInt[100]

\* The series 1 - z + z^2/2! - ... of exp(-z) for a fixed-point z >= 0,
\* from the k-th term on, term being z^k/k!.
ExpSeries[z \in Nat, k \in Nat, term \in Nat] ==
  IF k > 12 THEN 0
  ELSE (IF k % 2 = 0 THEN term ELSE 0 - term)
       + ExpSeries[z, k + 1, MulFix[term, z] \div (k + 1)]

\* Math.pow(h / 100, -p / FixedOne) for h >= 100, in fixed point.
PowNeg[h \in Nat, p \in Nat] == ExpSeries[MulFix[p, Log[h]], 0, FixedOne]

----------------------------------------------------------------------------
(* colorTemperatureToRGB *)

\* Math.min(Math.max(x, 0), 255) of a fixed-point value.
Clamp[x \in Int] ==
  IF x < 0 THEN 0 ELSE IF x > 255 * FixedOne THEN 255 * FixedOne ELSE x

\* Math.round(x).toString(16) of a fixed-point value x >= 0.
RoundHex[x \in Nat] == ToHex[(x + FixedOne \div 2) \div FixedOne]

\* The channels of colorTemperatureToRGB(k) for an integer k, each as the
\* characters Math.round(c).toString(16) gives.  temperature * 100 is k
\* itself; the coefficients are the code's, in fixed point.  On the
\* temperatures 1000..40000 the characters are those double arithmetic
\* gives, except for 12 temperatures whose channel lies within 0.0005 of a
\* half and rounds the other way.
RedChannelUnclamped(k) ==
  IF k <= 6600 THEN RoundHex[255 * FixedOne]
  ELSE RoundHex[MulFix[329698727, PowNeg[k - 6000, 133205]]]

RedChannel(k) ==
  IF k <= 6600 THEN RoundHex[255 * FixedOne]
  ELSE RoundHex[Clamp[MulFix[329698727, PowNeg[k - 6000, 133205]]]]

GreenChannel(k) ==
  IF k < 0 THEN NaNChars                      \* Math.log(t) for t < 0
  ELSE IF k = 0 THEN RoundHex[0]              \* Math.max(-Infinity, 0)
  ELSE IF k <= 6600
    THEN RoundHex[Clamp[MulFix[99470803, LnInt[k]]
                        - MulFix[99470803, LnInt[100]] - 161119568]]
  ELSE RoundHex[Clamp[MulFix[288122170, PowNeg[k - 6000, 75515]]]]

BlueChannel(k) ==
  IF k >= 6600 THEN RoundHex[255 * FixedOne]
  ELSE IF k <= 1900 THEN RoundHex[0]
  ELSE RoundHex[Clamp[MulFix[138517731, Log[k - 1000]] - 305044793]]

\* colorTemperatureToRGB(temperature): undefined and NaN divide to NaN, and
\* every comparison with NaN is false, so each channel is NaN.
colorTemperatureToRGB(temperature) ==
  IF temperature.t = "number"
    THEN Str(<<"#">> \o RedChannel(temperature.n)
                     \o GreenChannel(temperature.n)
                     \o BlueChannel(temperature.n))
    ELSE Str(<<"#">> \o NaNChars \o NaNChars \o NaNChars)

----------------------------------------------------------------------------
(* The widget.  An operation of the widget maps the record of its mutable  *)
(* fields to the record after the call; threw records a TypeError that     *)
(* leaves the call.                                                        *)

Chars7(a, b, c, d, e, f) == Str(<<"#", a, b, c, d, e, f>>)
DarkColor == Chars7("1", "1", "2", "2", "3", "3")
White == Chars7("f", "f", "f", "f", "f", "f")
EmptyString == Str(<<>>)
WhiteKeyword == Str(<<"w", "h", "i", "t", "e">>)

Formats == {"svg", "html", "htmlDetail"}
\* Which of color and colorTemperature the thing description lists.
Descriptions == {{"color"}, {"colorTemperature"},
                 {"color", "colorTemperature"}, {}}

OnValues == {True, False, Null}
ColorValues == {Undefined, EmptyString, DarkColor, White}
TemperatureValues ==
  {Num(2700), Str(<<"6", "6", "0", "0">>), Str(<<"a", "b", "c">>)}

\* ColorLight(description, format), lines 27-48: on is always displayed,
\* color takes precedence over colorTemperature.
Constructor(description) ==
  {"on"} \cup (IF "color" \in description THEN {"color"}
               ELSE IF "colorTemperature" \in description
                 THEN {"colorTemperature"}
               ELSE {})

\* Lines 57-65: the svg view returns before the elements are looked up.
HasElements == format # "svg"

Widget ==
  [properties |-> properties, label |-> label, background |-> background,
   fill |-> fill, bright |-> bright, onShown |-> onShown, threw |-> FALSE]

Throw(w) == [w EXCEPT !.threw = TRUE]

getIconColor(w) ==
  IF w.properties.color # Absent THEN w.properties.color
  ELSE IF w.properties.colorTemperature # Absent
    THEN colorTemperatureToRGB(w.properties.colorTemperature)
  ELSE White

\* parseInt(iconColor.substr(start, 2), 16)
Channel(iconColor, start) == ParseInt(Substr(iconColor.s, start, 2), 16)

\* r * 0.299 + g * 0.587 + b * 0.114 > 186; false when a channel is NaN.
BrightTest(r, g, b) ==
  /\ r # NaN /\ g # NaN /\ b # NaN
  /\ 299 * r.n + 587 * g.n + 114 * b.n > 186 * 1000

\* updateIcon once iconColor holds the value getIconColor() returned.
IconUpdated(w, iconColor) ==
  IF iconColor.t # "string"
    THEN Throw([w EXCEPT !.fill = iconColor])   \* substr is not a function
    ELSE [w EXCEPT !.fill = iconColor,
                   !.bright = BrightTest(Channel(iconColor, 1),
                                         Channel(iconColor, 3),
                                         Channel(iconColor, 5))]

\* const iconColor = this.getIconColor(): evaluated once, then used.
updateIcon(w) ==
  CHOOSE after \in {IconUpdated(w, iconColor) :
                      iconColor \in {getIconColor(w)}} : TRUE

updateOn(w, on) ==
  LET w1 == [w EXCEPT !.properties.on = on]
  IN IF on = Null THEN w1
     ELSE IF ~HasElements THEN Throw(w1)   \* colorLightLabel is undefined
     ELSE [w1 EXCEPT !.label = IF Truthy(on) THEN "on" ELSE "off",
                     !.background = IF Truthy(on) THEN WhiteKeyword
                                    ELSE EmptyString,
                     !.onShown = Truthy(on)]

\* this.displayedProperties[name].detail.update() in the htmlDetail view
\* throws when the widget displays no such property.
DetailThrows(name) == format = "htmlDetail" /\ name \notin displayedProperties

\* updateColor painting the background of the element as well.
updateColorWithBackground(w, color) ==
  IF ~Truthy(color) THEN w
  ELSE LET w1 == [w EXCEPT !.properties.color = color]
       IN IF ~HasElements THEN w1
          ELSE IF DetailThrows("color") THEN Throw(w1)
          ELSE updateIcon([w1 EXCEPT !.background = color])

updateColor(w, color) ==
  IF ~Truthy(color) THEN w
  ELSE LET w1 == [w EXCEPT !.properties.color = color]
       IN IF ~HasElements THEN w1
          ELSE IF DetailThrows("color") THEN Throw(w1)
          ELSE updateIcon(w1)

\* ToTemperature without the parse.
ToTemperatureUnparsed(temperature) == temperature

\* Lines 221-223 and 238-240: a string is parsed as a base-10 integer.
ToTemperature(temperature) ==
  IF temperature.t = "string" THEN ParseInt(temperature.s, 10)
  ELSE temperature

updateColorTemperature(w, temperature) ==
  LET w1 == [w EXCEPT !.properties.colorTemperature =
                          ToTemperature(temperature)]
  IN IF ~HasElements THEN w1
     ELSE IF DetailThrows("colorTemperature") THEN Throw(w1)
     ELSE updateIcon(w1)

updateProperty(w, name, value) ==
  IF name = "on" THEN updateOn(w, value)
  ELSE IF name = "color" THEN updateColor(w, value)
  ELSE IF name = "colorTemperature" THEN updateColorTemperature(w, value)
  ELSE w

----------------------------------------------------------------------------
(* State machine *)

MaxRequests == 2

None == [value |-> Absent, by |-> "", stale |-> FALSE]

\* this.properties as the base constructor creates it: no key yet.
EmptyCache == [on |-> Absent, color |-> Absent, colorTemperature |-> Absent]

\* The widget once constructed: the elements are as iconView renders them
\* for a cache without an on value.
InitWidget ==
  /\ format \in Formats
  /\ \E description \in Descriptions :
       displayedProperties = Constructor(description)
  /\ properties = EmptyCache
  /\ label = "ON"
  /\ background = EmptyString
  /\ fill = EmptyString
  /\ bright = FALSE
  /\ onShown = FALSE
  /\ requests = <<>>
  /\ issued = 0
  /\ sent = [name |-> "", value |-> Absent]
  /\ log = <<>>
  /\ thrown = FALSE
  /\ carried = [color |-> None, colorTemperature |-> None]

Init ==
  /\ InitWidget
  /\ reported = [kelvin |-> 0, value |-> Undefined]

\* The fields of the widget after a call that left them as w.
Becomes(w) ==
  /\ properties' = w.properties
  /\ label' = w.label
  /\ background' = w.background
  /\ fill' = w.fill
  /\ bright' = w.bright
  /\ onShown' = w.onShown

ValuesOf(name) ==
  IF name = "on" THEN OnValues
  ELSE IF name = "color" THEN ColorValues
  ELSE TemperatureValues

\* Whether delivering value for name is a state change of that property:
\* a color update without a value is none, a colorTemperature update
\* always is one.
Changes(name, value) ==
  \/ name = "color" /\ Truthy(value)
  \/ name = "colorTemperature"

Carries(name, value, by, stale) ==
  IF Changes(name, value)
    THEN [carried EXCEPT ![name] = [value |-> value, by |-> by,
                                     stale |-> stale]]
    ELSE carried

\* The requests in flight once a state change of name has been delivered:
\* those among the first n of them that are for name are now stale.
Overtake(reqs, n, name, value) ==
  [j \in 1..Len(reqs) |->
     IF j <= n /\ reqs[j].name = name /\ Changes(name, value)
       THEN [reqs[j] EXCEPT !.overtaken = TRUE]
       ELSE reqs[j]]

\* A notification: updateProperty(name, value) called from outside.
UpdateProperty(name, value) ==
  /\ UNCHANGED <<format, displayedProperties, issued, sent, log, reported>>
  /\ requests' = Overtake(requests, Len(requests), name, value)
  /\ carried' = Carries(name, value, "notification", FALSE)
  /\ Becomes(updateProperty(Widget, name, value))
  /\ thrown' = updateProperty(Widget, name, value).threw

\* JSON.stringify of a payload value: NaN is written as null, and a key
\* whose value is undefined is left out.
JSONValue(v) == IF v = NaN THEN Null ELSE IF v = Undefined THEN Absent ELSE v

\* The fetch of a set operation: reading .href of a property the widget
\* does not display throws; otherwise the request is in flight.
Fetch(name, value) ==
  IF name \notin displayedProperties
    THEN /\ thrown' = TRUE
         /\ UNCHANGED <<requests, issued, sent>>
    ELSE /\ issued < MaxRequests
         /\ thrown' = FALSE
         /\ issued' = issued + 1
         /\ sent' = [name |-> name, value |-> JSONValue(value)]
         /\ requests' = Append(requests, [name |-> name,
                                           overtaken |-> FALSE])

\* setColor writing the requested color to the cache before the response.
setColorOptimistic(color) ==
  /\ Fetch("color", color)
  /\ properties' = [properties EXCEPT !.color = color]
  /\ UNCHANGED <<format, displayedProperties, label, background, fill,
                 bright, onShown, log, carried, reported>>

setColor(color) ==
  /\ Fetch("color", color)
  /\ UNCHANGED <<format, displayedProperties, properties, label, background,
                 fill, bright, onShown, log, carried, reported>>

setColorTemperature(temperature) ==
  /\ Fetch("colorTemperature", ToTemperature(temperature))
  /\ UNCHANGED <<format, displayedProperties, properties, label, background,
                 fill, bright, onShown, log, carried, reported>>

\* The promise chain of a set operation, for a request that ends as how
\* ("reject": the transport rejects; "response": a response with status
\* arrives, whose body holds value under the property's key, undefined
\* when the key is missing).  The first handler throws unless the status
\* is 200, the second passes the value to the update; error is what
\* reaches the .catch handler, "" when nothing does.
Outcome(name, how, status, value) ==
  IF how = "reject" THEN [w |-> Widget, error |-> "rejected"]
  ELSE IF status # 200 THEN [w |-> Widget, error |-> "Status"]
  ELSE [w |-> updateProperty(Widget, name, value),
        error |-> IF updateProperty(Widget, name, value).threw
                    THEN "TypeError" ELSE ""]

\* A .catch handler that logs and throws the error again.
CatchAndRethrow(name, error) ==
  /\ log' = IF error = "" THEN log
            ELSE Append(log, [name |-> name, error |-> error])
  /\ thrown' = (error # "")

\* The .catch handler of both set operations: console.error, no rethrow.
Catch(name, error) ==
  /\ log' = IF error = "" THEN log
            ELSE Append(log, [name |-> name, error |-> error])
  /\ thrown' = FALSE

Remove(reqs, i) == SubSeq(reqs, 1, i - 1) \o SubSeq(reqs, i + 1, Len(reqs))

Respond(i, how, status, value) ==
  LET name == requests[i].name
      ok == how = "response" /\ status = 200
  IN /\ UNCHANGED <<format, displayedProperties, issued, sent, reported>>
     /\ requests' = IF ok
                      THEN Remove(Overtake(requests, i - 1, name, value), i)
                      ELSE Remove(requests, i)
     /\ carried' = IF ok
                     THEN Carries(name, value, "response",
                                  requests[i].overtaken)
                     ELSE carried
     /\ Becomes(Outcome(name, how, status, value).w)
     /\ Catch(name, Outcome(name, how, status, value).error)

\* The transport rejects request i.
Reject(i) == Respond(i, "reject", 0, Undefined)

\* A response to request i with a status other than 200.
Fail(i, status) == status # 200 /\ Respond(i, "response", status, Undefined)

\* Deliver with a sequencing token: the response of a request that a newer
\* state change has overtaken is dropped.
DeliverSequenced(i, value) ==
  IF requests[i].overtaken
    THEN /\ requests' = Remove(requests, i)
         /\ carried' = Carries(requests[i].name, value, "response", TRUE)
         /\ thrown' = FALSE
         /\ UNCHANGED <<format, displayedProperties, properties, label,
                        background, fill, bright, onShown, issued, sent, log,
                        reported>>
    ELSE Respond(i, "response", 200, value)

\* A 200 response to request i whose body holds value.
Deliver(i, value) == Respond(i, "response", 200, value)

SetTemperatures == {Num(2700), Str(<<"6", "6", "0", "0">>)}

Next ==
  \/ \E name \in {"on", "color", "colorTemperature"} :
       \E value \in ValuesOf(name) : UpdateProperty(name, value)
  \/ UpdateProperty("level", Num(50))
  \/ setColor(DarkColor)
  \/ \E temperature \in SetTemperatures : setColorTemperature(temperature)
  \/ \E i \in 1..Len(requests) : Reject(i)
  \/ \E i \in 1..Len(requests) : Fail(i, 500)
  \/ \E i \in 1..Len(requests) :
       \E value \in ValuesOf(requests[i].name) : Deliver(i, value)

Spec == Init /\ [][Next]_vars

----------------------------------------------------------------------------
(* A bulb that reports one temperature, as a number or as a numeric       *)
(* string, to a widget that displays colorTemperature: the widget is told *)
(* the temperature, and asked to set it.                                  *)

KelvinInputs == 1000..40000

InitCT ==
  /\ InitWidget
  /\ format = "html"
  /\ displayedProperties = {"on", "colorTemperature"}
  /\ \E k \in KelvinInputs :
       \E value \in {Num(k), Str(ToDecimal[k])} :
         reported = [kelvin |-> k, value |-> value]

ReportTemperature ==
  /\ properties.colorTemperature = Absent
  /\ UpdateProperty("colorTemperature", reported.value)

RequestTemperature ==
  /\ properties.colorTemperature # Absent
  /\ issued = 0
  /\ setColorTemperature(reported.value)

NextCT == ReportTemperature \/ RequestTemperature

SpecCT == InitCT /\ [][NextCT]_vars

----------------------------------------------------------------------------
(* Properties *)

Settable == {"color", "colorTemperature"}

\* What the cache holds once value has been delivered for name: a color
\* as delivered, a temperature as a number.
DecimalDigits == {"0", "1", "2", "3", "4", "5", "6", "7", "8", "9"}
HexDigits == DecimalDigits \cup {"a", "b", "c", "d", "e", "f"}

RECURSIVE DecimalValue(_)
DecimalValue(s) ==
  IF s = <<>> THEN 0
  ELSE 10 * DecimalValue(SubSeq(s, 1, Len(s) - 1))
       + (CHOOSE d \in 0..9 : ToDecimal[d] = <<s[Len(s)]>>)

ExpectedCache(name, value) ==
  IF name = "colorTemperature" /\ value.t = "string"
    THEN IF \A i \in 1..Len(value.s) : value.s[i] \in DecimalDigits
           THEN Num(DecimalValue(value.s))
           ELSE NaN
    ELSE value

SetIssued ==
  \/ setColor(DarkColor)
  \/ \E temperature \in SetTemperatures : setColorTemperature(temperature)

SetFailed == \E i \in 1..Len(requests) : Reject(i) \/ Fail(i, 500)

\* C1: when a set request is rejected or answered with a status other than
\* 200, the failure is logged, nothing is thrown to the caller, and the
\* cache and the displayed state stay as they were before.
C1_FailureLeavesDisplay ==
  [][/\ SetIssued => UNCHANGED <<properties, fill, bright, log>>
     /\ SetFailed =>
          /\ UNCHANGED <<properties, fill, bright, background, label,
                         onShown>>
          /\ Len(log') = Len(log) + 1
          /\ ~thrown']_vars

\* A color request failed with a bad status while the cache holds another
\* color than the one requested.
C1_Witness ==
  /\ Len(log) = 1
  /\ log[1] = [name |-> "color", error |-> "Status"]
  /\ sent = [name |-> "color", value |-> DarkColor]
  /\ properties.color = White
  /\ fill = White
  /\ ~thrown

\* C2: issuing a set changes neither the cache nor the icon; they change
\* when the response is delivered, to the value the response carries, and
\* a failed request leaves the cache alone.
C2_NoOptimisticUpdate ==
  [][/\ SetIssued => UNCHANGED <<properties, fill, bright, background>>
     /\ SetFailed => UNCHANGED properties
     /\ \A i \in 1..Len(requests) :
          \A value \in ValuesOf(requests[i].name) :
            Deliver(i, value) =>
              properties'[requests[i].name] =
                IF Changes(requests[i].name, value)
                  THEN ExpectedCache(requests[i].name, value)
                  ELSE properties[requests[i].name]]_vars

\* The response to a request for one color carried another, and the
\* widget shows the one the response carried.
C2_Witness ==
  /\ issued = 1
  /\ requests = <<>>
  /\ sent = [name |-> "color", value |-> DarkColor]
  /\ carried.color = [value |-> White, by |-> "response", stale |-> FALSE]
  /\ properties.color = White
  /\ fill = White

\* C3: the cache holds the value of the state change delivered last for
\* the property, whether a notification or a response carried it and
\* whether or not a newer change had been delivered before it.
C3_LastDeliveredWins ==
  \A name \in Settable :
    carried[name].by # "" =>
      properties[name] = ExpectedCache(name, carried[name].value)

\* Both requests were answered, and the response delivered last belonged
\* to a request that a newer state change had overtaken.
C3_Witness ==
  /\ issued = 2
  /\ requests = <<>>
  /\ log = <<>>
  /\ carried.color.by = "response"
  /\ carried.color.stale
  /\ properties.color = carried.color.value

TemperatureOnly ==
  /\ "color" \notin displayedProperties
  /\ "colorTemperature" \in displayedProperties

\* C4: on a device that exposes colorTemperature and not color, the icon
\* color is the conversion of the cached temperature.
C4_TemperatureDeviceIconColor ==
  (TemperatureOnly /\ properties.colorTemperature # Absent) =>
    getIconColor(Widget) = colorTemperatureToRGB(properties.colorTemperature)

\* The color of the element is c: the background that iconView renders
\* from the icon color and that an on update of false clears.
ShowsColor(c) ==
  \/ background = c
  \/ background = WhiteKeyword /\ c = White

ShownIsIconColor == ShowsColor(getIconColor(Widget))

\* C5: an on update of true shows the on state with the current icon
\* color, and one of false shows the off state with the color cleared.
C5_OnShowsIconColor ==
  [][/\ (HasElements /\ UpdateProperty("on", True)) =>
          (onShown' /\ ShownIsIconColor')
     /\ (HasElements /\ UpdateProperty("on", False)) =>
          (~onShown' /\ background' = EmptyString)]_vars

\* The value of the two characters of s after the first start ones, read
\* as parseInt reads them in base 16; -1 stands for NaN.
HexPair(s, start) ==
  LET digit(c) == CHOOSE d \in 0..15 : ToHex[d] = <<c>>
      isHex(j) == j <= Len(s) /\ s[j] \in HexDigits
  IN IF ~isHex(start + 1) THEN -1
     ELSE IF isHex(start + 2)
       THEN 16 * digit(s[start + 1]) + digit(s[start + 2])
       ELSE digit(s[start + 1])

Luminous(c) ==
  /\ c.t = "string"
  /\ \A start \in {1, 3, 5} : HexPair(c.s, start) >= 0
  /\ 299 * HexPair(c.s, 1) + 587 * HexPair(c.s, 3) + 114 * HexPair(c.s, 5)
       > 186 * 1000

\* C6: whenever the elements exist, the bright flag is set exactly when
\* the luminance of the current icon color exceeds 186.
C6_BrightIffIconColor ==
  HasElements => (bright <=> Luminous(getIconColor(Widget)))

\* C7: a color or colorTemperature update leaves the cached on value and
\* the on/off appearance alone, and a color it carries is cached.
C7_ColorUpdateKeepsOnState ==
  [][\A name \in Settable :
       \A value \in ValuesOf(name) :
         UpdateProperty(name, value) =>
           /\ UNCHANGED <<label, background, onShown>>
           /\ properties'.on = properties.on
           /\ Truthy(value) /\ name = "color" =>
                properties'.color = value]_vars

\* The light is off and a color notification has been cached and drawn.
C7_Witness ==
  /\ properties.on = False
  /\ label = "off"
  /\ background = EmptyString
  /\ ~onShown
  /\ carried.color = [value |-> DarkColor, by |-> "notification",
                      stale |-> FALSE]
  /\ properties.color = DarkColor
  /\ fill = DarkColor

Malformed(name) ==
  IF name = "color" THEN {Undefined, EmptyString}
  ELSE {value \in TemperatureValues : ExpectedCache(name, value) = NaN}

\* C8: an update that carries no usable value does nothing: a color that
\* is missing or empty, a temperature that does not parse.
C8_MalformedIgnored ==
  [][\A name \in Settable :
       \A value \in Malformed(name) :
         UpdateProperty(name, value) =>
           UNCHANGED <<properties, label, background, fill, bright,
                       onShown>>]_vars

\* C9: a temperature reported as a numeric string is sent and cached as
\* the number it spells, and one reported as a number is sent and cached
\* as that number.
C9_TemperatureNormalised ==
  [][/\ RequestTemperature =>
          sent' = [name |-> "colorTemperature",
                   value |-> Num(reported.kelvin)]
     /\ ReportTemperature =>
          properties'.colorTemperature = Num(reported.kelvin)]_vars

\* A temperature reported as a string was cached and sent as a number.
C9_Witness ==
  /\ reported.value = Str(<<"2", "7", "0", "0">>)
  /\ properties.colorTemperature = Num(2700)
  /\ sent = [name |-> "colorTemperature", value |-> Num(2700)]

RECURSIVE HexValue(_)
HexValue(s) ==
  IF s = <<>> THEN 0
  ELSE 16 * HexValue(SubSeq(s, 1, Len(s) - 1))
       + (CHOOSE d \in 0..15 : ToHex[d] = <<s[Len(s)]>>)

\* C10: for a temperature from 1000 to 40000 the conversion is "#" and
\* the three channels in hexadecimal without padding, each from 0 to 255;
\* red is 255 up to 6600, blue is 255 from 6600 and 0 up to 1900.
C10_ChannelsInRange ==
  properties.colorTemperature # Absent =>
    LET k == reported.kelvin
        channels == <<RedChannel(k), GreenChannel(k), BlueChannel(k)>>
    IN /\ fill = Str(<<"#">> \o channels[1] \o channels[2] \o channels[3])
       /\ Len(fill.s) - 1 \in 1..6
       /\ \A c \in 1..3 :
            /\ Len(channels[c]) \in 1..2
            /\ \A i \in 1..Len(channels[c]) : channels[c][i] \in HexDigits
            /\ HexValue(channels[c]) \in 0..255
            /\ Len(channels[c]) = 2 => channels[c][1] # "0"
       /\ k <= 6600 => HexValue(channels[1]) = 255
       /\ k >= 6600 => HexValue(channels[3]) = 255
       /\ k <= 1900 => HexValue(channels[3]) = 0

\* A temperature whose blue channel is written with a single digit.
C10_Witness ==
  /\ reported.kelvin = 1500
  /\ properties.colorTemperature = Num(1500)
  /\ Len(fill.s) = 6
  /\ fill.s[6] = "0"

====
